---- MODULE Spec2Model ----
(***************************************************************************)
(* A model of app.py of ChemAI-Analyst: the key selector (get_api_key),    *)
(* the document analyzer (analyze_pdf_with_gemini), the geometry mapper    *)
(* and aggregator (extract_images_from_pdf) and the Streamlit session      *)
(* script that wires them together.                                        *)
(*                                                                         *)
(* Python strings are sequences of symbols (<<"a", ",", "b">> is "a,b"),   *)
(* Python dicts are functions whose DOMAIN is the set of keys present,     *)
(* and lengths on a page are integers in thousandths of a point, so that   *)
(* x / 1000 * h is the integer x * h.                                      *)
(***************************************************************************)
EXTENDS Integers, Sequences, FiniteSets, TLC

\* ---------------------------------------------------------------- bounds
\* Longest configuration string (in symbols) the key-selector model draws.
MaxStrLen == 3
\* Longest list of figures the extraction model draws.
MaxFigs == 2
\* Most clicks on the analyze button the session model follows.
MaxClicks == 2

\* Longest list of keys the key-selector model draws for a secrets list.
MaxKeyList == 2

\* ----------------------------------------------------------------- state
VARIABLES
    \* configuration, fixed for the life of the process
    secrets,          \* st.secrets
    environ,          \* os.environ
    \* get_api_key, one call
    keys,             \* the local list `keys` at the end of the last call
    returned_key,     \* what the last call returned
    \* the clip rectangle of one figure
    fig_bbox,         \* the figure's bbox, [ymin, xmin, ymax, xmax]
    page_rect,        \* page.rect, in points
    clip_rect,        \* fitz.Rect(x1, y1, x2, y2), in thousandths of a point
    \* extract_images_from_pdf, one call
    pdf_bytes,        \* the PDF: whether fitz can open it, and its pages
    raw_analysis,     \* the Analyzer's record, as passed in
    render_outcomes,  \* per figure, whether rendering returns or raises
    extracted,        \* the outcome of the call
    pc,               \* "call" before the function under study ran, "return" after
    \* the Streamlit session
    authenticated,    \* st.session_state.authenticated
    password_input,   \* st.session_state.password_input, as last submitted
    uploaded_file,    \* the file_uploader widget's value
    analysis_result,  \* st.session_state.analysis_result
    result_doc,       \* the document analysis_result was produced from
    screen,           \* what the last script run rendered: login, nokey or main
    message,          \* the st.error / st.warning the last script run showed
    displayed,        \* the record the last script run displayed
    clicks,           \* clicks on the analyze button so far
    backend_calls,    \* generate_content requests sent so far
    client_count,     \* genai.Client objects built so far
    extract_count,    \* calls of extract_images_from_pdf so far
    run               \* what the last run of the analyze handler did

keyVars == <<keys, returned_key>>
clipVars == <<fig_bbox, page_rect, clip_rect>>
extractVars == <<pdf_bytes, raw_analysis, render_outcomes, extracted>>
configVars == <<secrets, environ>>
sessionVars == <<authenticated, password_input, uploaded_file,
                 analysis_result, result_doc,
                 screen, message, displayed, clicks, backend_calls,
                 client_count, extract_count, run>>
vars == <<configVars, keyVars, clipVars, extractVars, pc, sessionVars>>

\* ------------------------------------------------------- Python helpers
\* Python's None, as a string no configuration string can equal.
None == <<"None">>

\* Python's None where an object (a dict, an uploaded file) is expected.
NoneObj == [none |-> TRUE]

\* `not v` for a str-or-None value v.
Falsy(v) == v = None \/ v = <<>>

\* d.get(k, default)
DictGet(d, k, default) == IF k \in DOMAIN d THEN d[k] ELSE default

RECURSIVE SplitComma(_)
\* s.split(",")
SplitComma(s) ==
    IF \A i \in 1..Len(s) : s[i] # ","
    THEN <<s>>
    ELSE LET i == CHOOSE n \in 1..Len(s) :
                      s[n] = "," /\ \A j \in 1..(n - 1) : s[j] # ","
         IN  <<SubSeq(s, 1, i - 1)>> \o SplitComma(SubSeq(s, i + 1, Len(s)))

RECURSIVE Strip(_)
\* k.strip()
Strip(s) ==
    IF s # <<>> /\ Head(s) = " " THEN Strip(Tail(s))
    ELSE IF s # <<>> /\ s[Len(s)] = " " THEN Strip(SubSeq(s, 1, Len(s) - 1))
    ELSE s

\* [k.strip() for k in s.split(",") if k.strip()]
SplitKeys(s) ==
    LET parts    == SplitComma(s)
        stripped == [i \in 1..Len(parts) |-> Strip(parts[i])]
    IN  SelectSeq(stripped, LAMBDA k : k # <<>>)

\* ---------------------------------------------------------- get_api_key
\* Step 1: the keys taken from st.secrets["GEMINI_API_KEYS"].
SecretsPoolKeys(sec) ==
    IF "GEMINI_API_KEYS" \in DOMAIN sec
    THEN LET secret_keys == sec["GEMINI_API_KEYS"]
         IN  IF secret_keys.type = "list" THEN secret_keys.val
             ELSE IF secret_keys.type = "str" THEN SplitKeys(secret_keys.val)
             ELSE <<>>
    ELSE <<>>

\* Step 2: the keys taken from os.environ["GEMINI_API_KEYS"].
EnvPoolKeys(env) ==
    LET env_keys == DictGet(env, "GEMINI_API_KEYS", None)
    IN  IF Falsy(env_keys) THEN <<>> ELSE SplitKeys(env_keys)

\* Step 3: the single-key fallback, consulted only when the list is empty.
SingleKey(sec, env) ==
    LET single_key == DictGet(env, "GEMINI_API_KEY", None)
        chosen     == IF Falsy(single_key) /\ "GEMINI_API_KEY" \in DOMAIN sec
                      THEN sec["GEMINI_API_KEY"]
                      ELSE single_key
    IN  IF Falsy(chosen) THEN <<>> ELSE <<chosen>>

\* The local list `keys` when get_api_key reaches its last statement.
CandidateKeys(sec, env) ==
    LET pool == SecretsPoolKeys(sec) \o EnvPoolKeys(env)
    IN  IF pool = <<>> THEN SingleKey(sec, env) ELSE pool

\* The values get_api_key may return: None, or random.choice(keys).
GetApiKey(sec, env) ==
    LET ks == CandidateKeys(sec, env)
    IN  IF ks = <<>> THEN {None} ELSE {ks[i] : i \in 1..Len(ks)}

\* ---------------------------------------------- analyze_pdf_with_gemini
\* What the backend does with one generate_content request: the call
\* raises, or it returns a text that json.loads rejects, or a text that
\* parses to `value`.
BackendRaises == [kind |-> "raises"]
BackendGarbage == [kind |-> "garbage"]
BackendJson(value) == [kind |-> "json", value |-> value]

\* analyze_pdf_with_gemini sending the request a second time when the
\* first attempt fails.
AnalyzeWithRetry(api_key, backend) ==
    IF Falsy(api_key)
    THEN [exc |-> "ValueError", client |-> FALSE, calls |-> 0]
    ELSE IF backend.kind = "raises"
    THEN [exc |-> "BackendError", client |-> TRUE, calls |-> 2]
    ELSE IF backend.kind = "garbage"
    THEN [exc |-> "JSONDecodeError", client |-> TRUE, calls |-> 2]
    ELSE [exc |-> "None", client |-> TRUE, calls |-> 1, ret |-> backend.value]

\* The outcome of analyze_pdf_with_gemini(api_key, file_bytes) when the
\* backend answers `backend`: the exception raised ("None" when it returns),
\* the value returned, whether genai.Client was built and how many
\* generate_content requests were sent.
AnalyzePdfWithGemini(api_key, backend) ==
    IF Falsy(api_key)
    THEN [exc |-> "ValueError", client |-> FALSE, calls |-> 0]
    ELSE IF backend.kind = "raises"
    THEN [exc |-> "BackendError", client |-> TRUE, calls |-> 1]
    ELSE IF backend.kind = "garbage"
    THEN [exc |-> "JSONDecodeError", client |-> TRUE, calls |-> 1]
    ELSE [exc |-> "None", client |-> TRUE, calls |-> 1, ret |-> backend.value]

\* ---------------------------------------------- extract_images_from_pdf
Max(a, b) == IF a >= b THEN a ELSE b
Min(a, b) == IF a <= b THEN a ELSE b

\* padding = 20, in units of the 0-1000 scale
padding == 20

\* The resolution of the rendered crop.
dpi == 200

\* ClipRect with the padding added in page units after scaling.
ClipRectPadInPoints(bbox, rect) ==
    LET h == rect.height
        w == rect.width
    IN  [x1 |-> Max(0, bbox[2] * w - padding * 1000),
         y1 |-> Max(0, bbox[1] * h - padding * 1000),
         x2 |-> Min(1000 * w, bbox[4] * w + padding * 1000),
         y2 |-> Min(1000 * h, bbox[3] * h + padding * 1000)]

\* fitz.Rect(x1, y1, x2, y2) for bbox = [ymin, xmin, ymax, xmax] on a page
\* of rect.width x rect.height points; the result is in thousandths of a
\* point.
ClipRect(bbox, rect) ==
    LET ymin == bbox[1]
        xmin == bbox[2]
        ymax == bbox[3]
        xmax == bbox[4]
        h    == rect.height
        w    == rect.width
    IN  [x1 |-> Max(0, (xmin - padding) * w),
         y1 |-> Max(0, (ymin - padding) * h),
         x2 |-> Min(1000 * w, (xmax + padding) * w),
         y2 |-> Min(1000 * h, (ymax + padding) * h)]

\* fig["pil_image"] = image
SetItem(d, k, v) == [x \in DOMAIN d \cup {k} |-> IF x = k THEN v ELSE d[x]]

\* TryCrop accepting any bbox of at least 4 components.
TryCropAtLeastFour(doc, fig, page_num, render) ==
    LET box == DictGet(fig, "bbox", <<>>)
    IN  IF Len(box) >= 4 /\ render = "ok"
        THEN SetItem(fig, "pil_image",
                     [page |-> page_num,
                      clip |-> ClipRect(box, doc.pages[page_num + 1]),
                      dpi  |-> dpi])
        ELSE fig

\* TryCrop storing the 0-based page index back into the figure.
TryCropRewritesPage(doc, fig, page_num, render) ==
    LET box == DictGet(fig, "bbox", <<>>)
    IN  IF Len(box) = 4 /\ render = "ok"
        THEN SetItem(SetItem(fig, "page_number", page_num), "pil_image",
                     [page |-> page_num,
                      clip |-> ClipRect(box, doc.pages[page_num + 1]),
                      dpi  |-> dpi])
        ELSE fig

\* The body of the try block once the page is known to exist: the figure
\* as it is when line 204 appends it. `render` tells whether get_pixmap /
\* tobytes / Image.open return ("ok") or raise ("raise"); the except clause
\* swallows the exception and leaves the figure as it was.
TryCrop(doc, fig, page_num, render) ==
    LET rect == doc.pages[page_num + 1]
        bbox == DictGet(fig, "bbox", <<>>)
    IN  IF Len(bbox) = 4
        THEN IF render = "ok"
             THEN SetItem(fig, "pil_image",
                          [page |-> page_num,
                           clip |-> ClipRect(bbox, rect),
                           dpi  |-> dpi])
             ELSE fig
        ELSE fig

\* LoopBody without the `continue` after the out-of-range append.
LoopBodyNoContinue(doc, enriched_figures, fig, render) ==
    LET page_num == DictGet(fig, "page_number", 1) - 1
    IN  IF page_num < 0 \/ page_num >= Len(doc.pages)
        THEN Append(Append(enriched_figures, fig), fig)
        ELSE Append(enriched_figures, TryCrop(doc, fig, page_num, render))

\* One pass of the loop body: enriched_figures after it.
LoopBody(doc, enriched_figures, fig, render) ==
    LET page_num == DictGet(fig, "page_number", 1) - 1
    IN  IF page_num < 0 \/ page_num >= Len(doc.pages)
        THEN Append(enriched_figures, fig)
        ELSE Append(enriched_figures, TryCrop(doc, fig, page_num, render))

RECURSIVE ExtractLoop(_, _, _, _, _)
\* The for loop from its i-th pass on: enriched_figures when it ends.
ExtractLoop(doc, figs, renders, i, enriched_figures) ==
    IF i > Len(figs)
    THEN enriched_figures
    ELSE ExtractLoop(doc, figs, renders, i + 1,
                     LoopBody(doc, enriched_figures, figs[i], renders[i]))

\* extract_images_from_pdf(file_bytes, analysis_data): fitz.open raises on
\* bytes it cannot read as a PDF; otherwise the loop runs and the record is
\* returned with its results_figures replaced.
ExtractImagesFromPdf(file_bytes, analysis_data, renders) ==
    IF ~file_bytes.readable
    THEN [exc |-> "FileDataError"]
    ELSE LET figs == DictGet(analysis_data, "results_figures", <<>>)
         IN  [exc |-> "None",
              ret |-> SetItem(analysis_data, "results_figures",
                              ExtractLoop(file_bytes, figs, renders, 1, <<>>))]

\* ------------------------------------------------------------ the inputs
\* Strings of at most n symbols over the symbols a configuration string
\* is split and stripped on.
Symbols == {"a", "b", ",", " "}
Strings(n) == UNION {[1..k -> Symbols] : k \in 0..n}

\* Lists of at most n elements of S.
Lists(S, n) == UNION {[1..k -> S] : k \in 0..n}

\* A dict holding GEMINI_API_KEYS and GEMINI_API_KEY when the option (the
\* empty set, or a singleton) gives a value, next to an unrelated entry.
ConfigDict(poolOpt, singleOpt, other) ==
    [k \in {"GEMINI_API_KEYS" : x \in poolOpt}
          \cup {"GEMINI_API_KEY" : x \in singleOpt} \cup {other} |->
        IF k = "GEMINI_API_KEYS" THEN CHOOSE x \in poolOpt : TRUE
        ELSE IF k = "GEMINI_API_KEY" THEN CHOOSE x \in singleOpt : TRUE
        ELSE <<"x">>]

Options(S) == {{}} \cup {{v} : v \in S}

SecretsSet ==
    {ConfigDict(p, s, "OTHER") :
        p \in Options({[type |-> "list", val |-> l] :
                          l \in Lists({<<"a">>, <<"b">>, <<>>}, MaxKeyList)}
                     \cup {[type |-> "str", val |-> v] : v \in Strings(MaxStrLen)}),
        s \in Options({<<"s">>})}

EnvironSet ==
    {ConfigDict(p, s, "PATH") :
        p \in Options(Strings(MaxStrLen)), s \in Options({<<"e">>})}

\* The configuration the other specifications run under: one key.
OneKeySecrets == ConfigDict({}, {}, "OTHER")
OneKeyEnviron == ConfigDict({}, {<<"e">>}, "PATH")

\* Values of bbox components: inside and outside 0..1000.
Coords == {-100, 0, 10, 20, 100, 300, 400, 980, 1000, 1030}
Bboxes == [1..4 -> Coords]

\* Page sizes in points: US letter, A4 and a tiny page.
Rects == {[width |-> 612, height |-> 792], [width |-> 595, height |-> 842],
          [width |-> 1, height |-> 1]}

\* PDFs: one fitz cannot open, and a two-page US-letter document.
Letter == [width |-> 612, height |-> 792]
UnreadablePdf == [id |-> "bad", readable |-> FALSE, pages |-> <<>>]
TwoPagePdf == [id |-> "good", readable |-> TRUE, pages |-> <<Letter, Letter>>]
OtherPdf == [id |-> "other", readable |-> TRUE, pages |-> <<Letter>>]

\* Figures as the backend may report them: pages 0, 1 and 3, a bbox of 3,
\* 4 or 5 components, and figures lacking the page_number or the bbox key.
Figure(label, page_number, box) ==
    [label |-> label, explanation |-> "text", page_number |-> page_number,
     bbox |-> box]
Figures ==
    {Figure(l, p, b) : l \in {"Figure 1", "Table 1"}, p \in {0, 1, 3},
                       b \in {<<100, 100, 300>>, <<100, 100, 300, 400>>,
                              <<100, 100, 300, 400, 500>>}}
    \cup {[label |-> "Scheme 1", explanation |-> "text",
           bbox |-> <<100, 100, 300, 400>>],
          [label |-> "Scheme 2", explanation |-> "text", page_number |-> 2]}

\* The Analyzer's record with the given figures.
Record(figs) ==
    [title_en |-> "title", title_jp |-> "title_jp",
     journal_authors |-> "authors", publication_year |-> "2025",
     background_objective |-> "background", results_summary |-> "summary",
     results_figures |-> figs, novelty |-> "novelty",
     conclusion_tasks |-> "conclusion"]

TextFields == {"title_en", "title_jp", "journal_authors", "publication_year",
               "background_objective", "results_summary", "novelty",
               "conclusion_tasks"}

\* The same record without its results_figures entry.
RecordWithoutFigures == [k \in TextFields |-> Record(<<>>)[k]]

\* ------------------------------------------------- idle parts of a state
KeysIdle == keys = <<>> /\ returned_key = None
ClipIdle == fig_bbox = <<>> /\ page_rect = Letter /\ clip_rect = NoneObj
ExtractIdle ==
    /\ pdf_bytes = NoneObj
    /\ raw_analysis = NoneObj
    /\ render_outcomes = <<>>
    /\ extracted = NoneObj
SessionIdle ==
    /\ authenticated = FALSE
    /\ password_input = None
    /\ uploaded_file = NoneObj
    /\ analysis_result = NoneObj
    /\ result_doc = "None"
    /\ screen = "login"
    /\ message = "None"
    /\ displayed = NoneObj
    /\ clicks = 0
    /\ backend_calls = 0
    /\ client_count = 0
    /\ extract_count = 0
    /\ run = [ran |-> FALSE]
OneKeyConfig == secrets = OneKeySecrets /\ environ = OneKeyEnviron

\* ---------------------------------------- specification: the key selector
InitKeys ==
    /\ secrets \in SecretsSet
    /\ environ \in EnvironSet
    /\ KeysIdle /\ ClipIdle /\ ExtractIdle /\ SessionIdle
    /\ pc = "call"

\* One call of get_api_key.
CallGetApiKey ==
    /\ pc \in {"call", "return"}
    /\ keys' = CandidateKeys(secrets, environ)
    /\ returned_key' \in GetApiKey(secrets, environ)
    /\ pc' = "return"
    /\ UNCHANGED <<configVars, clipVars, extractVars, sessionVars>>

NextKeys == CallGetApiKey
SpecKeys == InitKeys /\ [][NextKeys]_vars

\* ------------------------------------- specification: the clip rectangle
InitClip ==
    /\ fig_bbox \in Bboxes
    /\ page_rect \in Rects
    /\ clip_rect = NoneObj
    /\ OneKeyConfig /\ KeysIdle /\ ExtractIdle /\ SessionIdle
    /\ pc = "call"

\* Lines 176-191 for one figure on one page.
ComputeClip ==
    /\ pc = "call"
    /\ clip_rect' = ClipRect(fig_bbox, page_rect)
    /\ pc' = "return"
    /\ UNCHANGED <<configVars, keyVars, fig_bbox, page_rect, extractVars,
                   sessionVars>>

NextClip == ComputeClip
SpecClip == InitClip /\ [][NextClip]_vars

\* ----------------------------- specification: extract_images_from_pdf
InitExtract ==
    /\ pdf_bytes \in {UnreadablePdf, TwoPagePdf}
    /\ raw_analysis \in {Record(f) : f \in Lists(Figures, MaxFigs)}
                            \cup {RecordWithoutFigures}
    /\ render_outcomes \in [1..Len(DictGet(raw_analysis, "results_figures", <<>>))
                        -> {"ok", "raise"}]
    /\ extracted = NoneObj
    /\ OneKeyConfig /\ KeysIdle /\ ClipIdle /\ SessionIdle
    /\ pc = "call"

\* One call of extract_images_from_pdf.
CallExtract ==
    /\ pc = "call"
    /\ extracted' =
          ExtractImagesFromPdf(pdf_bytes, raw_analysis, render_outcomes)
    /\ pc' = "return"
    /\ UNCHANGED <<configVars, keyVars, clipVars, pdf_bytes, raw_analysis,
                   render_outcomes, sessionVars>>

NextExtract == CallExtract
SpecExtract == InitExtract /\ [][NextExtract]_vars

\* ------------------------------------------ specification: the session
\* The configurations the session runs under: no key at all; the single
\* key of the environment; a secrets list with an empty entry, and a
\* password set in the environment; a pool in the secrets and one in the
\* environment.
SessionConfigs ==
    {<<ConfigDict({}, {}, "OTHER"), ConfigDict({}, {}, "PATH")>>,
     <<OneKeySecrets, OneKeyEnviron>>,
     <<ConfigDict({[type |-> "list", val |-> <<<<"a">>, <<>>>>]}, {}, "OTHER"),
       SetItem(ConfigDict({}, {}, "PATH"), "ACCESS_PASSWORD", <<"pw">>)>>,
     <<ConfigDict({[type |-> "str", val |-> <<"a", ",", "b">>]}, {}, "OTHER"),
       ConfigDict({<<"a">>}, {}, "PATH")>>}

\* What the user may type into the password field.
Passwords == {<<"chem2025">>, <<"pw">>, <<"guess">>}

\* What the user may upload.
Pdfs == {TwoPagePdf, OtherPdf, UnreadablePdf}

\* What the backend may answer: a failure, a text that is no JSON, the
\* JSON null, or a record with no figure, a good figure or a figure on a
\* page the document does not have.
Backends ==
    {BackendRaises, BackendGarbage, BackendJson(NoneObj),
     BackendJson(Record(<<>>)),
     BackendJson(Record(<<Figure("Figure 1", 1, <<100, 100, 300, 400>>)>>)),
     BackendJson(Record(<<Figure("Figure 1", 5, <<100, 100, 300, 400>>)>>))}

\* The rendering outcomes there may be for the figures of an answer.
RenderChoices(backend) ==
    IF backend.kind = "json" /\ backend.value # NoneObj
    THEN [1..Len(backend.value["results_figures"]) -> {"ok", "raise"}]
    ELSE {<<>>}

\* os.environ.get("ACCESS_PASSWORD", "chem2025")
CorrectPassword(env) == DictGet(env, "ACCESS_PASSWORD", <<"chem2025">>)

\* check_password letting any password in.
CheckPasswordAcceptsAny(env, auth, password) == TRUE

\* check_password: the new value of st.session_state.authenticated.
CheckPassword(env, auth, password) ==
    IF password = CorrectPassword(env) THEN TRUE ELSE auth

\* The key check left out.
KeyCheckAlwaysPasses(test_key) == FALSE

\* Whether the main script stops at its key check.
KeyCheckStops(test_key) == Falsy(test_key)

\* The body of the analyze button: what the handler does with the key it
\* drew, the uploaded bytes, the backend's answer and the rendering
\* outcomes. error is the exception st.error reports ("None" when none is
\* caught), stored tells whether analysis_result was assigned (and st.rerun
\* called), extracts counts the calls of extract_images_from_pdf.
AnalyzeHandler(current_api_key, file_bytes, backend, renders) ==
    LET a == AnalyzePdfWithGemini(current_api_key, backend)
    IN  IF a.exc # "None"
        THEN [error |-> a.exc, stored |-> FALSE, client |-> a.client,
              calls |-> a.calls, extracts |-> 0, analyzed |-> FALSE]
        ELSE IF a.ret = NoneObj
        THEN [error |-> "None", stored |-> FALSE, client |-> a.client,
              calls |-> a.calls, extracts |-> 0, analyzed |-> FALSE]
        ELSE LET e == ExtractImagesFromPdf(file_bytes, a.ret, renders)
             IN  IF e.exc # "None"
                 THEN [error |-> e.exc, stored |-> FALSE, client |-> a.client,
                       calls |-> a.calls, extracts |-> 1, analyzed |-> TRUE]
                 ELSE [error |-> "None", stored |-> TRUE, client |-> a.client,
                       calls |-> a.calls, extracts |-> 1, analyzed |-> TRUE,
                       final_analysis |-> e.ret]

InitSession ==
    /\ \E c \in SessionConfigs : secrets = c[1] /\ environ = c[2]
    /\ KeysIdle /\ ClipIdle /\ ExtractIdle /\ SessionIdle
    /\ pc = "session"

\* One run of the script from its top with no button pressed: the login
\* screen, the missing-key warning, or the main page with the stored
\* record. msg is what a callback has already shown.
Render(auth, result, msg) ==
    IF ~auth
    THEN screen' = "login" /\ message' = msg /\ displayed' = NoneObj
    ELSE \E test_key \in GetApiKey(secrets, environ) :
            IF KeyCheckStops(test_key)
            THEN screen' = "nokey" /\ message' = "nokey" /\ displayed' = NoneObj
            ELSE screen' = "main" /\ message' = msg /\ displayed' = result

\* The user submits the password field: check_password, then a script run.
SubmitPassword ==
    /\ screen = "login"
    /\ \E password \in Passwords :
          /\ password_input' = password
          /\ authenticated' = CheckPassword(environ, authenticated, password)
          /\ Render(authenticated', analysis_result,
                    IF password = CorrectPassword(environ) THEN "None"
                    ELSE "password")
    /\ UNCHANGED <<configVars, keyVars, clipVars, extractVars, pc,
                   uploaded_file, analysis_result, result_doc, clicks,
                   backend_calls, client_count, extract_count, run>>

\* The user puts a document into the uploader: a script run.
UploadFile ==
    /\ screen = "main"
    /\ \E d \in Pdfs : d # uploaded_file /\ uploaded_file' = d
    /\ Render(authenticated, analysis_result, "None")
    /\ UNCHANGED <<configVars, keyVars, clipVars, extractVars, pc,
                   authenticated, password_input, analysis_result,
                   result_doc, clicks, backend_calls, client_count,
                   extract_count, run>>

\* The user takes the document out of the uploader: a script run.
RemoveFile ==
    /\ screen = "main"
    /\ uploaded_file # NoneObj
    /\ uploaded_file' = NoneObj
    /\ Render(authenticated, analysis_result, "None")
    /\ UNCHANGED <<configVars, keyVars, clipVars, extractVars, pc,
                   authenticated, password_input, analysis_result,
                   result_doc, clicks, backend_calls, client_count,
                   extract_count, run>>

\* The user clicks the analyze button: a script run that, past the key
\* check, runs the handler; after st.rerun, a second script run.
ClickAnalyze ==
    /\ screen = "main"
    /\ uploaded_file # NoneObj
    /\ clicks < MaxClicks
    /\ clicks' = clicks + 1
    /\ \E test_key \in GetApiKey(secrets, environ) :
          IF KeyCheckStops(test_key)
          THEN /\ screen' = "nokey" /\ message' = "nokey"
               /\ displayed' = NoneObj
               /\ UNCHANGED <<analysis_result, result_doc, backend_calls,
                              client_count, extract_count, run>>
          ELSE \E current_api_key \in GetApiKey(secrets, environ),
                  backend \in Backends :
               \E renders \in RenderChoices(backend) :
                 LET h == AnalyzeHandler(current_api_key, uploaded_file,
                                         backend, renders)
                 IN  /\ backend_calls' = backend_calls + h.calls
                     /\ client_count' = client_count + (IF h.client THEN 1 ELSE 0)
                     /\ extract_count' = extract_count + h.extracts
                     /\ run' = [ran |-> TRUE, api_key |-> current_api_key,
                                error |-> h.error, client |-> h.client,
                                calls |-> h.calls, extracts |-> h.extracts,
                                analyzed |-> h.analyzed, stored |-> h.stored,
                                click |-> clicks']
                     /\ IF h.stored
                        THEN /\ analysis_result' = h.final_analysis
                             /\ result_doc' = uploaded_file.id
                             /\ Render(authenticated, analysis_result', "None")
                        ELSE /\ UNCHANGED <<analysis_result, result_doc>>
                             /\ screen' = "main"
                             /\ message' = IF h.error = "None" THEN "None"
                                           ELSE "failed"
                             /\ displayed' = analysis_result
    /\ UNCHANGED <<configVars, keyVars, clipVars, extractVars, pc,
                   authenticated, password_input, uploaded_file>>

\* The user clicks the reset button under a displayed record: a script
\* run that, past the key check, clears analysis_result; after st.rerun, a
\* second script run.
ClickReset ==
    /\ screen = "main"
    /\ displayed # NoneObj
    /\ \E test_key \in GetApiKey(secrets, environ) :
          IF KeyCheckStops(test_key)
          THEN /\ screen' = "nokey" /\ message' = "nokey"
               /\ displayed' = NoneObj
               /\ UNCHANGED <<analysis_result, result_doc>>
          ELSE /\ analysis_result' = NoneObj
               /\ result_doc' = "None"
               /\ Render(authenticated, analysis_result', "None")
    /\ UNCHANGED <<configVars, keyVars, clipVars, extractVars, pc,
                   authenticated, password_input, uploaded_file, clicks,
                   backend_calls, client_count, extract_count, run>>

Next == SubmitPassword \/ UploadFile \/ RemoveFile \/ ClickAnalyze \/ ClickReset
Spec == InitSession /\ [][Next]_vars

\* =================================================================== claims
\* ------------------------------------------------ the clip rectangle
Ordered(b) == b[1] <= b[3] /\ b[2] <= b[4]

\* C1: for every bbox with y_min <= y_max and x_min <= x_max, whatever its
\* values, and every page, the clip rectangle satisfies
\* 0 <= x1 <= x2 <= W and 0 <= y1 <= y2 <= H.
C1_ClampInvariant ==
    (pc = "return" /\ fig_bbox \in Bboxes /\ Ordered(fig_bbox)) =>
        /\ 0 <= clip_rect.x1 /\ clip_rect.x1 <= clip_rect.x2
        /\ clip_rect.x2 <= 1000 * page_rect.width
        /\ 0 <= clip_rect.y1 /\ clip_rect.y1 <= clip_rect.y2
        /\ clip_rect.y2 <= 1000 * page_rect.height

Clamp(lo, hi, v) == Max(lo, Min(hi, v))

TopLeft(v, size) == IF v <= 20 THEN 0 ELSE v * size - 20 * size
BottomRight(v, size) == IF v >= 980 THEN 1000 * size ELSE v * size + 20 * size

Returned == pc = "return" /\ extracted # NoneObj /\ extracted.exc = "None"

InFigures == DictGet(raw_analysis, "results_figures", <<>>)
OutFigures == extracted.ret["results_figures"]

PageOutside(fig) ==
    "page_number" \in DOMAIN fig
        /\ fig["page_number"] \notin 1..Len(pdf_bytes.pages)
BboxMalformed(fig) == Len(DictGet(fig, "bbox", <<>>)) # 4
HasImage(fig) == "pil_image" \in DOMAIN fig

\* C3: a figure whose page_number is outside [1, page_count] or whose bbox
\* has not exactly 4 components ends without a cropped image, and the
\* figures after it are still processed: each is in the output, with its
\* crop when its page and bbox are good and rendering succeeds.
C3_InvalidFiguresHaveNoImage ==
    Returned =>
        /\ Len(OutFigures) >= Len(InFigures)
        /\ \A i \in 1..Len(InFigures) :
              /\ (PageOutside(InFigures[i]) \/ BboxMalformed(InFigures[i]))
                    => ~HasImage(OutFigures[i])
              /\ (~PageOutside(InFigures[i]) /\ ~BboxMalformed(InFigures[i])
                      /\ render_outcomes[i] = "ok")
                    => HasImage(OutFigures[i])

\* A figure on a page that does not exist, or with a malformed bbox, was
\* left without an image and the figure after it was cropped.
C3_Witness ==
    /\ Returned
    /\ Len(InFigures) = 2
    /\ PageOutside(InFigures[1]) \/ BboxMalformed(InFigures[1])
    /\ ~HasImage(OutFigures[1])
    /\ HasImage(OutFigures[2])

WithoutImage(fig) == [k \in DOMAIN fig \ {"pil_image"} |-> fig[k]]

\* C4: whatever happens to each figure, the returned results_figures has
\* the length of the Analyzer's list and holds at index i the figure that
\* was at index i.
C4_PositionalIntegrity ==
    Returned =>
        /\ Len(OutFigures) = Len(InFigures)
        /\ \A i \in 1..Len(InFigures) :
              i <= Len(OutFigures) => WithoutImage(OutFigures[i]) = InFigures[i]

\* Two different figures, the first of which failed to render and the
\* second of which is on a page that does not exist.
C4_Witness ==
    /\ Returned
    /\ Len(InFigures) = 2
    /\ InFigures[1] # InFigures[2]
    /\ ~PageOutside(InFigures[1]) /\ ~BboxMalformed(InFigures[1])
    /\ render_outcomes[1] = "raise"
    /\ PageOutside(InFigures[2])
    /\ Len(OutFigures) = 2

FigureFields == {"label", "explanation", "page_number", "bbox"}

\* C5: the call changes no label, explanation, page_number or bbox of a
\* figure and no text field of the record; all it adds to a figure is the
\* cropped image.
C5_OnlyAddsImage ==
    Returned =>
        /\ \A k \in TextFields : extracted.ret[k] = raw_analysis[k]
        /\ DOMAIN extracted.ret = DOMAIN raw_analysis \cup {"results_figures"}
        /\ \A i \in 1..Len(InFigures) :
              i <= Len(OutFigures) =>
                /\ \A k \in FigureFields :
                      /\ (k \in DOMAIN InFigures[i]) = (k \in DOMAIN OutFigures[i])
                      /\ k \in DOMAIN InFigures[i]
                            => OutFigures[i][k] = InFigures[i][k]
                /\ DOMAIN OutFigures[i] \ DOMAIN InFigures[i] \subseteq {"pil_image"}

\* One figure was cropped and another was not.
C5_Witness ==
    /\ Returned
    /\ \E i, j \in 1..Len(OutFigures) :
          HasImage(OutFigures[i]) /\ ~HasImage(OutFigures[j])

\* -------------------------------------------------------------- the session
\* C6: when the Analyzer returned a record, no failure of the image
\* extraction aborts the analysis: no "Analysis Failed" is shown and the
\* record is stored as analysis_result.
C6_ExtractionNeverAborts ==
    (run.ran /\ run.analyzed) => (run.error = "None" /\ run.stored)

\* The handler ran in this step.
HandlerRan == run'.ran /\ run'.click = clicks' /\ clicks' = clicks + 1

\* C7: a click causes at most one backend call, and a backend call happens
\* only in the step of a click; when the call fails or its payload does
\* not parse, the error is shown, extract_images_from_pdf is not called
\* and analysis_result stays as it was.
C7_NoAutomaticRetry ==
    /\ [](backend_calls <= clicks)
    /\ [][/\ backend_calls' # backend_calls
               => (clicks' = clicks + 1 /\ backend_calls' = backend_calls + 1)
          /\ (HandlerRan /\ run'.error \in {"BackendError", "JSONDecodeError"})
               => /\ message' = "failed"
                  /\ extract_count' = extract_count
                  /\ analysis_result' = analysis_result
                  /\ run'.calls = 1]_vars

\* Two clicks, each with one failed backend call, the second over a stored
\* record.
C7_Witness ==
    /\ clicks = 2
    /\ backend_calls = 2
    /\ run.ran /\ run.error = "JSONDecodeError"
    /\ message = "failed"

\* C8: with no key configured, no client is built and no request is sent,
\* and the authenticated user sees the missing-key warning; and a handler
\* run whose get_api_key gave no key builds no client and sends no request
\* but reports the missing key.
C8_NoKeyNoNetwork ==
    /\ CandidateKeys(secrets, environ) = <<>>
          => /\ backend_calls = 0 /\ client_count = 0 /\ ~run.ran
             /\ authenticated => (screen = "nokey" /\ message = "nokey")
    /\ (run.ran /\ Falsy(run.api_key))
          => (~run.client /\ run.calls = 0 /\ run.error = "ValueError")

\* The user has logged in where no key is configured.
C8_Witness ==
    /\ CandidateKeys(secrets, environ) = <<>>
    /\ authenticated
    /\ screen = "nokey"

\* C9: the record held in analysis_result was produced from the document
\* that is now in the uploader.
C9_RecordOfCurrentDocument ==
    (analysis_result # NoneObj /\ uploaded_file # NoneObj)
        => result_doc = uploaded_file.id

\* C11: the password gate guards every analysis step. A backend call, an
\* image extraction or a change of analysis_result happens only in a
\* session that is authenticated; authenticated becomes true only in
\* check_password, on the login screen, with the configured password; and
\* once true it stays true.
C11_PasswordGate ==
    /\ [](~authenticated
            => /\ backend_calls = 0 /\ client_count = 0 /\ extract_count = 0
               /\ analysis_result = NoneObj /\ screen = "login")
    /\ [][/\ (\/ backend_calls' # backend_calls
              \/ extract_count' # extract_count
              \/ analysis_result' # analysis_result)
               => (authenticated /\ authenticated')
          /\ (~authenticated /\ authenticated')
               => (screen = "login"
                     /\ password_input' = CorrectPassword(environ))
          /\ authenticated => authenticated']_vars

\* After a wrong and then the right password, a document was analyzed,
\* its figures extracted and the record stored.
C11_Witness ==
    /\ authenticated
    /\ password_input = CorrectPassword(environ)
    /\ backend_calls > 0
    /\ extract_count > 0
    /\ analysis_result # NoneObj

\* ------------------------------------------------------- the key selector
NoDuplicates(seq) == \A i, j \in 1..Len(seq) : seq[i] = seq[j] => i = j
Elements(seq) == {seq[i] : i \in 1..Len(seq)}

\* The configured pool: the entries of GEMINI_API_KEYS in the secrets and
\* in the environment.
ConfiguredPool ==
    Elements(SecretsPoolKeys(secrets)) \cup Elements(EnvPoolKeys(environ))

\* C10: with a non-empty pool, get_api_key returns a member of the pool,
\* the single key GEMINI_API_KEY is not a candidate, and every configured
\* credential is a candidate exactly once, whichever of the secrets and
\* the environment it was configured in (each source on its own listing
\* it once).
C10_EqualWeightCandidates ==
    (pc = "return" /\ ConfiguredPool # {}) =>
        /\ returned_key \in ConfiguredPool
        /\ Elements(keys) = ConfiguredPool
        /\ (NoDuplicates(SecretsPoolKeys(secrets))
                /\ NoDuplicates(EnvPoolKeys(environ)))
              => NoDuplicates(keys)

====
